---- MODULE Spec2Model ----
(***************************************************************************)
(* Model of image_tager: the add_image ingest pipeline                     *)
(* (crates/add_image/src/main.rs) and the search_image query pipeline      *)
(* (crates/search_image/src/main.rs, crates/models/.../wd_tagger.rs).      *)
(* One behaviour is one deployment: either a sequence of add_image runs    *)
(* over one directory, sharing a bucket and a collection, or one           *)
(* search_image run over a sequence of tag groups.                         *)
(***************************************************************************)
EXTENDS Integers, Sequences, FiniteSets, TLC

(* ------------------------------ bounds --------------------------------- *)
MaxFiles == 2
MaxRuns == 2
MaxCpu == 2
MaxProbe == 66
MaxGroups == 2
MaxResults == 2
OutputSize == 2

(* ------------------------- program constants --------------------------- *)
MaxPositive == 32
DownloadWidth == 4
DEFAULT_LIMIT == 512
QDRANT_SEARCH_HNSW_EF == 64

Exts == {"jpg", "jpeg"}
Contents == {"c1", "c2"}

VARIABLES
  program,     \* which binary this deployment runs: "add_image" / "search_image"
  cpu,         \* std::thread::available_parallelism()
  env,         \* add_image: which settings of the environment are present
  dir,         \* add_image: the files of input_dir, in walk order
  pc,          \* add_image: position of main: boot / running / done / failed
  run,         \* add_image: number of the current run
  items,       \* add_image: per entry, its place in the stream chain and its data
  blobs,       \* the bucket: set of object keys
  points,      \* the collection: set of points {id, hash, path, url}
  collection,  \* vector size of the collection, 0 when it does not exist
  prevClean,   \* add_image: the previous run completed and every item succeeded
  qpc,         \* search_image: position of main / process_entry
  groupsLeft,  \* search_image: tag groups not yet started
  tag,         \* search_image: folder name of the current group
  entries,     \* search_image: folder names of the groups started so far, in order
  printed,     \* search_image: the errors the run has reported
  files,       \* search_image: probe files of the current group, in order, while in use
  images,      \* search_image: images_batch, the decoded sub-batches
  vecs,        \* search_image: the try_fold accumulator, then the reduced list
  request,     \* search_image: the recommend request built for the group, until it is sent
  results,     \* search_image: (url, path) pairs of the recommend response
  dl           \* search_image: per result, the state of its download task

ingestVars == <<dir, pc, run, items, blobs, points, collection, prevClean>>
queryVars == <<qpc, groupsLeft, tag, entries, printed, files, images, vecs, request, results, dl>>
vars == <<program, cpu, env, ingestVars, queryVars>>

(* ----------------------- content addressing ---------------------------- *)
\* blake3::Hasher::update_mmap(..).finalize().to_hex(): a digest of the bytes
\* alone; distinct contents of the model get distinct digests.
Blake3Hex(content) == <<"blake3", content>>

\* Path::extension(): the part of the file name after its last dot.
Extension(file) == file.ext

\* format!("{}.{}", hash, extension)
StoredObjectKey(hash, ext) == <<hash, ext>>

\* Path::file_name()
FileName(file) == <<file.name, file.ext>>

\* format!("{url}/{filename}")
FullUrl(key) == <<"url", key>>

\* uuid::Uuid::new_v4(): a fresh random id at every call. The id drawn by the
\* upsert of entry i in run r is named by that call; an entry makes at most
\* one upsert per run, so two calls never draw the same id.
NewV4(r, i) == <<"uuid", r, i>>

\* the id of a point: the id drawn, whatever the hash is
PointId(hash, u) == u

PointStruct(file, u) ==
  LET hash == Blake3Hex(file.content)
  IN  [id |-> PointId(hash, u), hash |-> hash, path |-> FileName(file),
       url |-> FullUrl(StoredObjectKey(hash, Extension(file)))]

\* upsert_points: a point with a known id is replaced, any other is added.
Upsert(coll, p) == {q \in coll : q.id # p.id} \cup {p}

(* -------------------------- add_image state ---------------------------- *)
N == Len(dir)

\* process_single_image: let filename = format!("{}.{}", hash, entry.extension()..)
CheckKey(file) == StoredObjectKey(Blake3Hex(file.content), Extension(file))

\* upload_and_index: let filename = format!("{}.{}", hash, path.extension()..)
UploadKeyByName(file) == StoredObjectKey(<<"name", ToString(file.name)>>, Extension(file))
UploadKey(file) == StoredObjectKey(Blake3Hex(file.content), Extension(file))

NewItem == [pos |-> "pending", img |-> FALSE, vec |-> FALSE, err |-> "none",
            seen |-> "unchecked", calls |-> <<>>]

Stage1 == {i \in 1..N : items[i].pos \in {"s1", "s1blocking", "s1done"}}
Stage2 == {i \in 1..N : items[i].pos \in {"s2", "s2done"}}
Stage3 == {i \in 1..N : items[i].pos \in {"s3", "s3put", "s3done"}}

\* buffer_unordered(cpu * 2), buffer_unordered(cpu), buffer_unordered(cpu)
Width1Triple == cpu * 3
Width1 == cpu * 2
Width2 == cpu
Width3 == cpu

\* BufferUnordered polls the stream before it only while it has a free slot:
\* stage 3 is polled by then/collect, stage 2 by stage 3, stage 1 by stage 2.
Polled3 == TRUE
Polled2 == Polled3 /\ Cardinality(Stage3) < Width3
Polled1 == Polled2 /\ Cardinality(Stage2) < Width2

\* FuturesUnordered inside a BufferUnordered: any future of the stage that has
\* completed is yielded, whatever the order in which the futures were pushed.
YieldsInOrder(i, stage, done) == items[i].pos = done /\ \A j \in stage : j >= i
Yields(i, stage, done) == i \in stage /\ items[i].pos = done

\* calls: what the item's tasks have done so far in this run, in order, each
\* with the object key it named ("-" when it names none)
Did(i, call) == \E k \in 1..Len(items[i].calls) : items[i].calls[k][1] = call
KeysUsed(i) == {items[i].calls[k][2] : k \in {k \in 1..Len(items[i].calls) :
                                                items[i].calls[k][1] \in {"exists", "put"}}}
Ops(i) == [k \in 1..Len(items[i].calls) |-> items[i].calls[k][1]]

Set(i, rec) == items' = [items EXCEPT ![i] = rec]

\* What main does with the run once handle_result has seen an item's result.
AbortOnError(err) == IF err = "none" THEN "running" ELSE "failed"
AfterHandle(err) == "running"

(* ------------------------- collaborators ------------------------------- *)
\* S3 get_object: Ok only for a stored key; Err for a missing key and for any
\* transport failure, whatever the bucket holds.
GetObjectResults(key) == IF key \in blobs THEN {"ok", "err"} ELSE {"err"}

\* process_single_image, match object: Ok(_) is "already stored".
AlreadyStored(result) == result = "ok"

(* ------------------------- add_image: main ----------------------------- *)
\* The settings add_image reads, by where it reads them: the credentials,
\* ENDPOINT, REGION, QDRANT_URL and COLLECTION_NAME in main before the
\* collection is looked at, BUCKET_NAME at the top of process_images.
Envs == {"ok", "no_client", "no_bucket"}

\* process_images: env::var("BUCKET_NAME")?, before the stream is built
AfterEnsure == IF env = "ok" THEN "running" ELSE "failed"

\* create_collection(.. VectorParamsBuilder::new(dimension, Cosine) ..): the
\* vector size of the collection it makes
CreateCollectionSkipped(dimension) == 0
CreateCollection(dimension) == dimension

\* main up to the stream: the clients, ensure_image_collection_exists (which
\* asks only whether the collection exists), the settings of process_images
Boot ==
  /\ program = "add_image" /\ pc = "boot"
  /\ \/ /\ env = "no_client"
        /\ pc' = "failed"
        /\ UNCHANGED collection
     \/ /\ env # "no_client" /\ collection = 0
        /\ collection' = CreateCollection(OutputSize)
        /\ pc' = AfterEnsure
     \/ /\ env # "no_client" /\ collection # 0
        /\ pc' = AfterEnsure
        /\ UNCHANGED collection
     \/ /\ env # "no_client"
        /\ pc' = "failed"          \* collection_exists / create_collection failed
        /\ UNCHANGED collection
  /\ UNCHANGED <<program, cpu, env, dir, run, items, blobs, points, prevClean, queryVars>>

\* stream::iter(entries) -> map(spawn process_single_image) -> buffer_unordered(cpu * 2)
Admit1(i) ==
  /\ program = "add_image" /\ pc = "running"
  /\ items[i].pos = "pending"
  /\ \A j \in 1..(i - 1) : items[j].pos # "pending"
  /\ Polled1
  /\ Cardinality(Stage1) < Width1
  /\ Set(i, [items[i] EXCEPT !.pos = "s1"])
  /\ UNCHANGED <<program, cpu, env, dir, pc, run, blobs, points, collection, prevClean, queryVars>>

\* process_single_image up to the answer of get_object (its first await):
\* hash, existence check; an item that is not stored goes on to the decode
Check(i) ==
  /\ program = "add_image" /\ pc = "running"
  /\ items[i].pos = "s1"
  /\ \/ Set(i, [items[i] EXCEPT !.pos = "s1done", !.err = "hash"])
     \/ \E r \in GetObjectResults(CheckKey(dir[i])) :
          LET seen == IF CheckKey(dir[i]) \in blobs THEN "present" ELSE "absent"
              it == [items[i] EXCEPT !.seen = seen,
                                     !.calls = Append(@, <<"exists", CheckKey(dir[i])>>)]
          IN  IF AlreadyStored(r)
              THEN Set(i, [it EXCEPT !.pos = "s1done"])
              ELSE Set(i, [it EXCEPT !.pos = "s1blocking"])
  /\ UNCHANGED <<program, cpu, env, dir, pc, run, blobs, points, collection, prevClean, queryVars>>

\* process_single_image, Err(_) arm: spawn_blocking(open, mmap, decode).await?
\* (its second await)
DecodeBlocking(i) ==
  /\ program = "add_image" /\ pc = "running"
  /\ items[i].pos = "s1blocking"
  /\ LET it == [items[i] EXCEPT !.pos = "s1done", !.calls = Append(@, <<"decode", "-">>)]
     IN  \/ Set(i, [it EXCEPT !.img = TRUE])
         \/ \E e \in {"decode", "panic"} : Set(i, [it EXCEPT !.err = e])
  /\ UNCHANGED <<program, cpu, env, dir, pc, run, blobs, points, collection, prevClean, queryVars>>

\* .map(|x| x?) -> map(spawn generate_vector) -> buffer_unordered(cpu)
Admit2(i) ==
  /\ program = "add_image" /\ pc = "running"
  /\ Yields(i, Stage1, "s1done")
  /\ Polled2
  /\ Cardinality(Stage2) < Width2
  /\ Set(i, [items[i] EXCEPT !.pos = "s2"])
  /\ UNCHANGED <<program, cpu, env, dir, pc, run, blobs, points, collection, prevClean, queryVars>>

\* generate_vector(result?, model)
Gen(i) ==
  /\ program = "add_image" /\ pc = "running"
  /\ items[i].pos = "s2"
  /\ LET it == [items[i] EXCEPT !.pos = "s2done", !.img = FALSE]
     IN  IF items[i].err # "none" \/ ~items[i].img
         THEN Set(i, it)
         ELSE \/ Set(i, [it EXCEPT !.vec = TRUE, !.calls = Append(@, <<"embed", "-">>)])
              \/ \E e \in {"embed", "panic"} :
                   Set(i, [it EXCEPT !.err = e, !.calls = Append(@, <<"embed", "-">>)])
  /\ UNCHANGED <<program, cpu, env, dir, pc, run, blobs, points, collection, prevClean, queryVars>>

\* .map(|x| x?) -> map(spawn upload_and_index) -> buffer_unordered(cpu)
Admit3(i) ==
  /\ program = "add_image" /\ pc = "running"
  /\ Yields(i, Stage2, "s2done")
  /\ Polled3
  /\ Cardinality(Stage3) < Width3
  /\ Set(i, [items[i] EXCEPT !.pos = "s3"])
  /\ UNCHANGED <<program, cpu, env, dir, pc, run, blobs, points, collection, prevClean, queryVars>>

\* upload_and_index: put_object(..).send().await? -- an error of the put
\* ends the task, a success goes on to the upsert
AfterPutIgnoringErr(result) == "s3put"
AfterPut(result) == IF result = "ok" THEN "s3put" ELSE "s3done"

\* upload_and_index(result?, ..) up to the end of put_object
Put(i) ==
  /\ program = "add_image" /\ pc = "running"
  /\ items[i].pos = "s3"
  /\ IF items[i].err # "none" \/ ~items[i].vec
     THEN Set(i, [items[i] EXCEPT !.pos = "s3done"]) /\ UNCHANGED blobs
     ELSE \/ /\ Set(i, [items[i] EXCEPT !.pos = "s3done", !.err = "open"])
             /\ UNCHANGED blobs
          \/ \E r \in {"ok", "err"} :
               /\ Set(i, [items[i] EXCEPT !.pos = AfterPut(r),
                                          !.err = IF r = "ok" THEN "none" ELSE "put",
                                          !.calls = Append(@, <<"put", UploadKey(dir[i])>>)])
               /\ blobs' = IF r = "ok" THEN blobs \cup {UploadKey(dir[i])} ELSE blobs
  /\ UNCHANGED <<program, cpu, env, dir, pc, run, points, collection, prevClean, queryVars>>

\* upload_and_index: upsert_points after the put
UpsertPoint(i) ==
  /\ program = "add_image" /\ pc = "running"
  /\ items[i].pos = "s3put"
  /\ \/ /\ collection = OutputSize
        /\ points' = Upsert(points, PointStruct(dir[i], NewV4(run, i)))
        /\ Set(i, [items[i] EXCEPT !.pos = "s3done", !.calls = Append(@, <<"upsert", "-">>)])
     \/ /\ Set(i, [items[i] EXCEPT !.pos = "s3done", !.err = "upsert",
                                   !.calls = Append(@, <<"upsert", "-">>)])
        /\ UNCHANGED points
  /\ UNCHANGED <<program, cpu, env, dir, pc, run, blobs, collection, prevClean, queryVars>>

\* .map(|x| x?).then(handle_result)
Handle(i) ==
  /\ program = "add_image" /\ pc = "running"
  /\ Yields(i, Stage3, "s3done")
  /\ Set(i, [items[i] EXCEPT !.pos = "reported"])
  /\ pc' = AfterHandle(items[i].err)
  /\ UNCHANGED <<program, cpu, env, dir, run, blobs, points, collection, prevClean, queryVars>>

\* The stream chain ends when the entries are used up and every stage has
\* yielded all it held: each item has been through handle_result.
StreamEndedOnceAdmitted == \A i \in 1..N : items[i].pos # "pending"
StreamEnded == \A i \in 1..N : items[i].pos = "reported"

\* collect ends with the stream; pb.finish(); Ok(())
Finish ==
  /\ program = "add_image" /\ pc = "running"
  /\ StreamEnded
  /\ pc' = "done"
  /\ UNCHANGED <<program, cpu, env, dir, run, items, blobs, points, collection, prevClean, queryVars>>

AllSucceeded == \A i \in 1..N : items[i].pos = "reported" /\ items[i].err = "none"

StartRun(clean) ==
  /\ run < MaxRuns
  /\ run' = run + 1
  /\ pc' = "boot"
  /\ items' = [i \in 1..N |-> NewItem]
  /\ prevClean' = clean
  /\ UNCHANGED <<program, cpu, env, dir, blobs, points, collection, queryVars>>

\* the process is killed from outside, and add_image is started again
Kill ==
  /\ program = "add_image" /\ pc \in {"boot", "running"}
  /\ StartRun(FALSE)

\* add_image is started again over the same directory after a run that ended
Rerun ==
  /\ program = "add_image" /\ pc \in {"done", "failed"}
  /\ StartRun(pc = "done" /\ AllSucceeded)

IngestNext ==
  \/ Boot
  \/ \E i \in 1..N : Admit1(i)
  \/ \E i \in 1..N : Check(i)
  \/ \E i \in 1..N : DecodeBlocking(i)
  \/ \E i \in 1..N : Admit2(i)
  \/ \E i \in 1..N : Gen(i)
  \/ \E i \in 1..N : Admit3(i)
  \/ \E i \in 1..N : Put(i)
  \/ \E i \in 1..N : UpsertPoint(i)
  \/ \E i \in 1..N : Handle(i)
  \/ Finish
  \/ Kill
  \/ Rerun

(* ----------------------- search_image: vectors ------------------------ *)
\* An f32 component is kept as an exact fraction in lowest terms.
RECURSIVE Gcd(_, _)
Gcd(a, b) == IF b = 0 THEN a ELSE Gcd(b, a % b)
Frac(n, d) == LET g == Gcd(n, d) IN <<n \div g, d \div g>>

\* image::open(e)?.into_rgb8()
Decode(file) == <<"rgb", file>>

\* preprocess(image, target_size): pad, resize, reorder channels
Preprocess(image) == <<"tensor", image>>

\* One row of the session output: the model's vector for one input tensor.
\* Distinct probe files get distinct vectors.
ModelRow(tensor) ==
  LET f == tensor[2][2]
  IN  [d \in 1..OutputSize |-> IF d = 1 THEN Frac(f, 1) ELSE Frac((f * d) % 7, 1)]

\* Model::predicts: preprocess each image, stack along axis 0, run the session
\* once, return the rows of the output along axis 0.
Predicts(batch) == [i \in 1..Len(batch) |-> ModelRow(Preprocess(batch[i]))]

DivCeil(a, b) == (a + b - 1) \div b

\* slice::chunks(k): contiguous chunks of k elements, the last may be shorter
Chunks(seq, k) ==
  [c \in 1..DivCeil(Len(seq), k) |->
     SubSeq(seq, (c - 1) * k + 1, IF c * k < Len(seq) THEN c * k ELSE Len(seq))]

\* vecs.extend(batch)
ExtendFront(acc, batch) == batch \o acc
Extend(acc, batch) == acc \o batch

RECURSIVE SumAt(_, _, _)
SumAt(chunk, d, k) == IF k = 0 THEN 0 ELSE chunk[k][d][1] + SumAt(chunk, d, k - 1)

\* stack(Axis(0), ..).mean_axis(Axis(0)): componentwise mean of the chunk.
\* Every input component is a whole number (denominator 1).
SumAxis0(chunk, output_size) ==
  [d \in 1..output_size |-> Frac(SumAt(chunk, d, Len(chunk)), 1)]
MeanAxis0(chunk, output_size) ==
  [d \in 1..output_size |-> Frac(SumAt(chunk, d, Len(chunk)), Len(chunk))]

\* let chunk_size = 1 + len.div_ceil(32)
ChunkSizeFloor(len) == len \div MaxPositive
ChunkSize(len) == 1 + DivCeil(len, MaxPositive)

\* reduce_vectors
ReduceVectorsLt(vs, output_size) ==
  IF Len(vs) < MaxPositive
  THEN vs
  ELSE LET chunks == Chunks(vs, ChunkSize(Len(vs)))
       IN  [c \in 1..Len(chunks) |-> MeanAxis0(chunks[c], output_size)]
ReduceVectors(vs, output_size) ==
  IF Len(vs) <= MaxPositive
  THEN vs
  ELSE LET chunks == Chunks(vs, ChunkSize(Len(vs)))
       IN  [c \in 1..Len(chunks) |-> MeanAxis0(chunks[c], output_size)]

\* build_recommend_request: one add_positive per vector, in order
BuildRecommendRequest(limit, vs) ==
  [positive |-> vs, limit |-> limit, with_payload |-> TRUE, exact |-> TRUE,
   hnsw_ef |-> QDRANT_SEARCH_HNSW_EF, strategy |-> "BestScore"]

NoRequest == BuildRecommendRequest(0, <<>>)

\* folder names of tag groups; folders in different places can share a name
Tags == {"t1", "t2"}

\* output.join(entry).join(file_path)
Destination(entry, file_path) == <<entry, file_path>>

\* payloads a recommend response can carry: (url, path) of indexed points
Payloads == {[url |-> "u/a", path |-> "p1"], [url |-> "u/b", path |-> "p1"],
             [url |-> "u/c", path |-> "p2"]}

(* ----------------------- search_image: main ---------------------------- *)
\* an error returned with ? out of process_entry and out of main, which
\* prints it and exits with failure
QueryFails(cause) ==
  /\ qpc' = "failed"
  /\ printed' = printed \cup {cause}
  /\ UNCHANGED <<program, cpu, env, ingestVars, groupsLeft, tag, entries, files, images, vecs, request, results, dl>>

\* for (entry, files) in input_entries: create_dir_all(entry_output)
BeginEntry ==
  /\ program = "search_image" /\ qpc = "loop" /\ groupsLeft > 0
  /\ \/ /\ \E n \in 1..MaxProbe : files' = [j \in 1..n |-> j]
        /\ \E t \in Tags : tag' = t /\ entries' = Append(entries, t)
        /\ groupsLeft' = groupsLeft - 1
        /\ qpc' = "decode"
        /\ images' = <<>> /\ vecs' = <<>> /\ request' = NoRequest
        /\ results' = <<>> /\ dl' = <<>>
        /\ UNCHANGED <<program, cpu, env, ingestVars, printed>>
     \/ QueryFails("mkdir")

\* process_images: decode every chunk of files.chunks(batch_size)
DecodeAll ==
  /\ program = "search_image" /\ qpc = "decode"
  /\ \/ /\ images' = [c \in 1..Len(Chunks(files, cpu)) |->
                        [k \in 1..Len(Chunks(files, cpu)[c]) |-> Decode(Chunks(files, cpu)[c][k])]]
        /\ qpc' = "predict"
        /\ UNCHANGED <<program, cpu, env, ingestVars, groupsLeft, tag, entries, printed, files, vecs, request, results, dl>>
     \/ QueryFails("decode")

\* try_fold: the first Err ends the fold and is returned; an Ok batch is
\* appended to the accumulator
TryFoldSkippingErr(acc, out) ==
  [ok |-> TRUE, acc |-> IF out.ok THEN Extend(acc, out.rows) ELSE acc]
TryFold(acc, out) ==
  IF out.ok THEN [ok |-> TRUE, acc |-> Extend(acc, out.rows)] ELSE [ok |-> FALSE, acc |-> acc]

\* process_images: then(model.predicts(&batch)).try_fold(vecs.extend(batch)),
\* one sub-batch at a time, in order
PredictBatch ==
  /\ program = "search_image" /\ qpc = "predict" /\ images # <<>>
  /\ \E out \in {[ok |-> TRUE, rows |-> Predicts(Head(images))], [ok |-> FALSE, rows |-> <<>>]} :
       LET r == TryFold(vecs, out)
       IN  IF r.ok
           THEN /\ vecs' = r.acc
                /\ images' = Tail(images)
                /\ UNCHANGED <<program, cpu, env, ingestVars, qpc, groupsLeft, tag, entries, printed, files, request, results, dl>>
           ELSE QueryFails("predict")

\* process_entry: reduce_vectors, build_recommend_request
Reduce ==
  /\ program = "search_image" /\ qpc = "predict" /\ images = <<>>
  /\ request' = BuildRecommendRequest(DEFAULT_LIMIT, ReduceVectors(vecs, OutputSize))
  /\ qpc' = "recommend"
  /\ UNCHANGED <<program, cpu, env, ingestVars, groupsLeft, tag, entries, printed, files, images, vecs, results, dl>>

\* process_entry: client.recommend(req), filter_and_extract_files. The
\* vectors were moved into the request and the request into the call, and
\* the probe files are not read again: only the response is left.
Recommend ==
  /\ program = "search_image" /\ qpc = "recommend"
  /\ \/ /\ \E k \in 0..MaxResults : \E res \in [1..k -> Payloads] :
             /\ results' = res
             /\ dl' = [i \in 1..k |-> "pending"]
        /\ qpc' = "download"
        /\ files' = <<>> /\ vecs' = <<>> /\ request' = NoRequest
        /\ UNCHANGED <<program, cpu, env, ingestVars, groupsLeft, tag, entries, printed, images>>
     \/ QueryFails("recommend")

\* the futures held by buffer_unordered(4): the transfers spawned and not yet
\* yielded
RunningNone == {}
Running == {i \in 1..Len(dl) : dl[i] = "running"}

\* download_files: map(spawn ..).buffer_unordered(4)
StartDownload(i) ==
  /\ program = "search_image" /\ qpc = "download"
  /\ dl[i] = "pending"
  /\ \A j \in 1..(i - 1) : dl[j] # "pending"
  /\ Cardinality(Running) < DownloadWidth
  /\ dl' = [dl EXCEPT ![i] = "running"]
  /\ UNCHANGED <<program, cpu, env, ingestVars, qpc, groupsLeft, tag, entries, printed, files, images, vecs, request, results>>

\* What try_collect::<Vec<_>>() does with the output of one transfer task,
\* a Result<anyhow::Result<()>, JoinError>: the task's own result, Ok or Err,
\* is an element of the Vec, which is dropped; only a JoinError (the task
\* panicked) ends the collection with an error.
TryCollect(outcome) == IF outcome = "panic" THEN "failed" ELSE "download"

\* the spawned transfer: reqwest::get, File::create, io::copy; "ok" means the
\* file Destination(tag, results[i].path) was written, "err" that the fetch
\* or the write returned an error.
FinishDownload(i) ==
  /\ program = "search_image" /\ qpc = "download"
  /\ dl[i] = "running"
  /\ \E outcome \in {"ok", "err", "panic"} :
       /\ dl' = [dl EXCEPT ![i] = outcome]
       /\ qpc' = TryCollect(outcome)
       /\ printed' = IF TryCollect(outcome) = "failed" THEN printed \cup {"join"} ELSE printed
  /\ UNCHANGED <<program, cpu, env, ingestVars, groupsLeft, tag, entries, files, images, vecs, request, results>>

\* download_files returns Ok; pb.finish(); next entry
EndEntry ==
  /\ program = "search_image" /\ qpc = "download"
  /\ \A i \in 1..Len(dl) : dl[i] \in {"ok", "err"}
  /\ qpc' = "loop"
  /\ UNCHANGED <<program, cpu, env, ingestVars, groupsLeft, tag, entries, printed, files, images, vecs, request, results, dl>>

\* main returns Ok(()) after the last entry
QueryDone ==
  /\ program = "search_image" /\ qpc = "loop" /\ groupsLeft = 0
  /\ qpc' = "done"
  /\ UNCHANGED <<program, cpu, env, ingestVars, groupsLeft, tag, entries, printed, files, images, vecs, request, results, dl>>

QueryNext ==
  \/ BeginEntry
  \/ DecodeAll
  \/ PredictBatch
  \/ Reduce
  \/ Recommend
  \/ \E i \in 1..Len(dl) : StartDownload(i)
  \/ \E i \in 1..Len(dl) : FinishDownload(i)
  \/ EndEntry
  \/ QueryDone

QueryInit ==
  /\ program = "search_image"
  /\ cpu \in 1..MaxCpu
  /\ env = "ok"
  /\ dir = <<>> /\ pc = "idle" /\ run = 0 /\ items = <<>>
  /\ blobs = {} /\ points = {} /\ collection = OutputSize /\ prevClean = FALSE
  /\ qpc = "loop"
  /\ groupsLeft \in 0..MaxGroups
  /\ tag = "" /\ entries = <<>> /\ printed = {}
  /\ files = <<>> /\ images = <<>> /\ vecs = <<>> /\ request = NoRequest
  /\ results = <<>> /\ dl = <<>>

File(name, ext, content) == [name |-> name, ext |-> ext, content |-> content]
\* The directories of at most MaxFiles image files. File names are distinct
\* (the index); up to renaming of contents and extensions the first file is
\* 1.jpg with content c1.
Directories ==
  {d \in UNION {[1..n -> [name : 1..MaxFiles, ext : Exts, content : Contents]] : n \in 0..MaxFiles} :
     /\ \A i \in 1..Len(d) : d[i].name = i
     /\ Len(d) > 0 => d[1] = File(1, "jpg", "c1")}

IngestInit ==
  /\ program = "add_image"
  /\ cpu \in 1..MaxCpu
  /\ env \in Envs
  /\ dir \in Directories
  /\ pc = "boot"
  /\ run = 1
  /\ items = [i \in 1..Len(dir) |-> NewItem]
  /\ blobs = {} /\ points = {}
  /\ collection \in {0, OutputSize, OutputSize + 1}
  /\ prevClean = FALSE
  /\ qpc = "idle" /\ groupsLeft = 0 /\ tag = "" /\ entries = <<>> /\ printed = {}
  /\ files = <<>> /\ images = <<>> /\ vecs = <<>> /\ request = NoRequest
  /\ results = <<>> /\ dl = <<>>

\* one add_image run from start to end, not killed
RunNext ==
  \/ Boot
  \/ \E i \in 1..N : Admit1(i)
  \/ \E i \in 1..N : Check(i)
  \/ \E i \in 1..N : DecodeBlocking(i)
  \/ \E i \in 1..N : Admit2(i)
  \/ \E i \in 1..N : Gen(i)
  \/ \E i \in 1..N : Admit3(i)
  \/ \E i \in 1..N : Put(i)
  \/ \E i \in 1..N : UpsertPoint(i)
  \/ \E i \in 1..N : Handle(i)
  \/ Finish

\* a single add_image run on a configured host over a directory of copies of
\* one image, in which every task that can take a step eventually takes it:
\* the runtime schedules every spawned task and every collaborator call returns
LiveInit ==
  /\ program = "add_image"
  /\ cpu \in 1..MaxCpu
  /\ env = "ok"
  /\ \E n \in 0..MaxFiles : dir = [i \in 1..n |-> File(i, "jpg", "c1")]
  /\ pc = "boot"
  /\ run = 1
  /\ items = [i \in 1..Len(dir) |-> NewItem]
  /\ blobs = {} /\ points = {}
  /\ collection \in {0, OutputSize}
  /\ prevClean = FALSE
  /\ qpc = "idle" /\ groupsLeft = 0 /\ tag = "" /\ entries = <<>> /\ printed = {}
  /\ files = <<>> /\ images = <<>> /\ vecs = <<>> /\ request = NoRequest
  /\ results = <<>> /\ dl = <<>>

LiveSpec == LiveInit /\ [][RunNext]_vars /\ WF_vars(RunNext)

\* a search_image run whose first group has just got a recommend response
\* with one result more than the download pool admits
DownloadInit ==
  /\ program = "search_image"
  /\ cpu \in 1..MaxCpu
  /\ env = "ok"
  /\ dir = <<>> /\ pc = "idle" /\ run = 0 /\ items = <<>>
  /\ blobs = {} /\ points = {} /\ collection = OutputSize /\ prevClean = FALSE
  /\ qpc = "download"
  /\ groupsLeft \in 0..1
  /\ tag = "t1" /\ entries = <<"t1">> /\ printed = {}
  /\ files = <<>> /\ images = <<>> /\ vecs = <<>> /\ request = NoRequest
  /\ results = [i \in 1..(DownloadWidth + 1) |->
                  [url |-> IF i % 2 = 1 THEN "u/a" ELSE "u/c",
                   path |-> IF i % 2 = 1 THEN "p1" ELSE "p2"]]
  /\ dl = [i \in 1..(DownloadWidth + 1) |-> "pending"]

DownloadSpec == DownloadInit /\ [][QueryNext]_vars

\* add_image runs over one directory, killed and started again at any point
Init == IngestInit \/ QueryInit
Next == IngestNext \/ QueryNext
Spec == Init /\ [][Next]_vars

\* a single add_image run
RunSpec == IngestInit /\ [][RunNext]_vars

\* a single add_image run on a configured host over a directory that holds
\* one file more than stage one of a single-core host admits (2 * 1 + 1)
PipeInit ==
  /\ program = "add_image"
  /\ cpu \in 1..MaxCpu
  /\ env = "ok"
  /\ dir = [i \in 1..(2 * 1 + 1) |-> File(i, "jpg", IF i % 2 = 1 THEN "c1" ELSE "c2")]
  /\ pc = "boot"
  /\ run = 1
  /\ items = [i \in 1..Len(dir) |-> NewItem]
  /\ blobs = {} /\ points = {}
  /\ collection = OutputSize
  /\ prevClean = FALSE
  /\ qpc = "idle" /\ groupsLeft = 0 /\ tag = "" /\ entries = <<>> /\ printed = {}
  /\ files = <<>> /\ images = <<>> /\ vecs = <<>> /\ request = NoRequest
  /\ results = <<>> /\ dl = <<>>

PipeSpec == PipeInit /\ [][RunNext]_vars

\* a search_image run
QuerySpec == QueryInit /\ [][QueryNext]_vars

(* ============================== claims ================================= *)
PointsOf(content) == {p \in points : p.hash = Blake3Hex(content)}
BlobsOf(content) == {k \in blobs : k[1] = Blake3Hex(content)}
Short(i) == Ops(i) = <<"exists">>
Full(i) == Ops(i) = <<"exists", "decode", "embed", "put", "upsert">>

\* C1: idempotent ingest. Whenever a run has ended, no content that was
\* ingested (twice or more, in one run or in several) has more than one point
\* in the collection or more than one object in the bucket.
C1_IdempotentIngest ==
  pc = "done" =>
    \A c \in Contents : Cardinality(PointsOf(c)) <= 1 /\ Cardinality(BlobsOf(c)) <= 1

\* C2: the point id is a function of the content hash alone. Any two points
\* the pipeline has upserted for the same content hash carry the same id.
C2_IdFromHashAlone ==
  \A p, q \in points : p.hash = q.hash => p.id = q.id

\* C3: safe resumption. Once a run has completed with no item error, whatever
\* happened to the runs before it, every file of the directory has exactly
\* one point for its content, and its bytes are stored under its key.
C3_SafeResumption ==
  (pc = "done" /\ AllSucceeded) =>
    \A i \in 1..N : /\ Cardinality(PointsOf(dir[i].content)) = 1
                    /\ CheckKey(dir[i]) \in blobs

\* C4: dedup short-circuit. An item whose key was in the bucket when its
\* existence check ran is not decoded, embedded, uploaded or upserted, and it
\* carries no error.
C4_DedupShortCircuit ==
  \A i \in 1..N :
    items[i].seen = "present" =>
      /\ ~Did(i, "decode") /\ ~Did(i, "embed") /\ ~Did(i, "put") /\ ~Did(i, "upsert")
      /\ items[i].err = "none"

\* C5: a run started after a run in which every item succeeded makes no
\* embedding call and no upload, and leaves the collection and the bucket
\* as they were.
C5_SecondRunIsNoOp ==
  [][(prevClean /\ prevClean') =>
       /\ \A i \in 1..N : ~Did(i, "embed")' /\ ~Did(i, "put")'
       /\ blobs' = blobs /\ points' = points]_vars

\* C6 as claimed: two files of equal content name the same object key in the
\* existence check and in the upload, whatever their extensions.
C6_KeyFromContentAlone ==
  \A i, j \in 1..N :
    dir[i].content = dir[j].content =>
      \A k \in KeysUsed(i), m \in KeysUsed(j) : k = m

\* C6 as amended: two files of equal content and equal extension name the
\* same object key in the existence check and in the upload, whatever their
\* file names; the key of a file is its content hash followed by its extension.
C6_KeyFromContentAndExtension ==
  \A i, j \in 1..N :
    (dir[i].content = dir[j].content /\ Extension(dir[i]) = Extension(dir[j])) =>
      \A k \in KeysUsed(i), m \in KeysUsed(j) : k = m

\* two files of one content and one extension, under different names, have
\* both been looked up and uploaded
C6_Witness ==
  \E i, j \in 1..N :
    /\ i # j /\ dir[i].content = dir[j].content /\ Extension(dir[i]) = Extension(dir[j])
    /\ Did(i, "exists") /\ Did(i, "put") /\ Did(j, "exists") /\ Did(j, "put")

\* C7: the recommend request built for a group of n >= 1 probe vectors
\* carries at most 32 positive examples.
C7_ReductionBounded ==
  qpc = "recommend" => (Len(vecs) >= 1 /\ Len(request.positive) <= MaxPositive)

\* a request was built from more than twice 32 probe vectors
C7_Witness ==
  qpc = "recommend" /\ Len(vecs) > 2 * MaxPositive /\ Len(request.positive) > 1

\* C8: for n <= 32 probe vectors the reduced list is the input list: the
\* same vectors in the same order.
C8_SmallInputUnchanged ==
  (qpc = "recommend" /\ Len(vecs) <= MaxPositive) => request.positive = vecs

\* a request was built from exactly 32 probe vectors
C8_Witness ==
  qpc = "recommend" /\ Len(vecs) = MaxPositive /\ Len(request.positive) = MaxPositive

\* the vector the model gives for one probe file embedded on its own
EmbeddingOf(file) == Predicts(<<Decode(file)>>)[1]
Undecoded == IF qpc = "decode" THEN Len(files)
             ELSE Len(images) * cpu - (IF images # <<>> THEN cpu - Len(images[Len(images)]) ELSE 0)

\* C9: positional alignment. While the sub-batches of a group are embedded,
\* the accumulated list holds one vector per file of the sub-batches done so
\* far, vector i being the embedding of file i; when the embedding has
\* returned, the list has exactly n vectors for the n probe files.
C9_PositionalAlignment ==
  qpc \in {"predict", "recommend"} =>
    /\ Len(vecs) = Len(files) - Undecoded
    /\ \A i \in 1..Len(vecs) : vecs[i] = EmbeddingOf(files[i])
    /\ qpc = "recommend" => Len(vecs) = Len(files)

\* a group of several sub-batches, the last one shorter, has been embedded
C9_Witness ==
  /\ qpc = "recommend" /\ cpu = 2 /\ Len(files) = 5
  /\ Len(vecs) = 5 /\ vecs[5] = EmbeddingOf(files[5])

\* C10: ingest failure isolation. Only a startup failure fails the run: once
\* an item has been admitted the run never fails. The run ends with success
\* only when every item has been reported, and then every item that did not
\* fail itself went through all its stages (short-circuited after the
\* existence check, or decoded, embedded, uploaded and upserted).
C10_FailureIsolation ==
  /\ pc = "failed" => \A i \in 1..N : items[i].pos = "pending"
  /\ pc = "done" =>
       \A i \in 1..N : /\ items[i].pos = "reported"
                       /\ items[i].err = "none" => (Short(i) \/ Full(i))

\* a run ended with success although one item failed, and a sibling of the
\* failed item was decoded, embedded, uploaded and upserted
C10_Witness ==
  /\ pc = "done"
  /\ \E i, j \in 1..N : items[i].err # "none" /\ items[j].err = "none" /\ Full(j)

\* C11: query group independence. A failure inside one tag group (an image
\* that does not decode, a sub-batch that is not embedded, a recommend query
\* that fails) is never what makes the run exit with failure, so the groups
\* after it are still processed.
C11_GroupIndependence ==
  qpc = "failed" => printed \cap {"decode", "predict", "recommend"} = {}

\* C12: configuration errors are fatal at startup. When a setting of the
\* environment is missing, or the collection exists with a vector size other
\* than the model's output size, no item of the run is ever admitted to the
\* pipeline: none is hashed, looked up, embedded, uploaded or upserted.
C12_ConfigErrorsFatalAtStartup ==
  (program = "add_image" /\ (env # "ok" \/ collection \notin {0, OutputSize})) =>
    \A i \in 1..N : items[i].pos = "pending" /\ items[i].calls = <<>>

InFlight == {i \in 1..N : items[i].pos \notin {"pending", "reported"}}

\* C13: per-stage bounded concurrency. On a host of P cores at most 2P items
\* are in the hash/dedup stage, at most P in the embed stage and at most P in
\* the upload/index stage, and the items admitted but not yet reported are
\* never more than 4P + 1.
C13_BoundedConcurrency ==
  /\ Cardinality(Stage1) <= 2 * cpu
  /\ Cardinality(Stage2) <= cpu
  /\ Cardinality(Stage3) <= cpu
  /\ Cardinality(InFlight) <= 4 * cpu + 1

\* on one core the hash/dedup stage holds two items and a third file of the
\* directory waits for a slot
C13_Witness ==
  /\ cpu = 1 /\ Cardinality(Stage1) = 2
  /\ \E i \in 1..N : items[i].pos = "pending"

\* the existence check of item i named a stored key and did not get the
\* object back: get_object returned an error, and the item went on to decode
ExistenceCheckErred(i) ==
  items[i].seen = "present" /\ (items[i].pos = "s1blocking" \/ Did(i, "decode"))

\* C14: an error of the existence check fails the item. An item whose
\* get_object call returned an error although its key is stored carries an
\* error from then on and is never embedded, uploaded or upserted.
C14_CheckErrorFailsItem ==
  \A i \in 1..N :
    ExistenceCheckErred(i) =>
      /\ items[i].err # "none"
      /\ ~Did(i, "embed") /\ ~Did(i, "put") /\ ~Did(i, "upsert")

\* C15: independent download destinations. Within the download fan-out of
\* one group no two results resolve to the same destination path, so no two
\* transfers write the same file; and no two tag groups of a run resolve to
\* the same output subdirectory.
C15_IndependentDestinations ==
  /\ qpc = "download" =>
       \A i, j \in 1..Len(results) :
         i # j => Destination(tag, results[i].path) # Destination(tag, results[j].path)
  /\ \A a, b \in 1..Len(entries) : a # b => entries[a] # entries[b]

\* C16: download errors are reported. Every transfer of a group that failed
\* with a fetch error or a file-write error has been reported as an error
\* of the run's output.
C16_DownloadErrorsReported ==
  \A i \in 1..Len(dl) : dl[i] = "err" => "download" \in printed

\* the least k with d * k >= n
CeilOf(n, d) == CHOOSE k \in 0..n : d * k >= n /\ d * (k - 1) < n

\* the sum of component d of the probe vectors a..b
RECURSIVE SumRange(_, _, _)
SumRange(d, a, b) == IF a > b THEN 0 ELSE vecs[a][d][1] + SumRange(d, a + 1, b)

\* C17: chunked-mean reduction. For n > 32 probe vectors the list is cut
\* into contiguous chunks of 1 + ceil(n / 32) vectors, the last chunk
\* possibly shorter and none empty, which together cover every input once;
\* the request carries ceil(n / chunk size) vectors in chunk order, each the
\* componentwise mean of its chunk. For n = 65 the chunk size is 4 and the
\* request carries 17 vectors.
C17_ChunkedMean ==
  (qpc = "recommend" /\ Len(vecs) > MaxPositive) =>
    LET n == Len(vecs)
        size == 1 + CeilOf(n, MaxPositive)
        m == CeilOf(n, size)
        out == request.positive
        first(c) == (c - 1) * size + 1
        last(c) == IF c * size < n THEN c * size ELSE n
    IN  /\ Len(out) = m
        /\ last(m) = n
        /\ \A c \in 1..m :
             /\ first(c) <= last(c)
             /\ \A d \in 1..OutputSize :
                  /\ out[c][d][2] > 0
                  /\ out[c][d][1] * (last(c) - first(c) + 1)
                       = out[c][d][2] * SumRange(d, first(c), last(c))
        /\ n = 65 => (size = 4 /\ m = 17)

\* a request was built from 65 probe vectors: 16 chunks of 4 and one of 1
C17_Witness ==
  qpc = "recommend" /\ Len(vecs) = 65 /\ Len(request.positive) = 17

\* C18: a batch failure never corrupts alignment. When the decoding or the
\* embedding of a group fails, the group's embedding fails as a whole: no
\* recommend request is built for it and no query is answered. A recommend
\* request is only ever built from the complete list of the group: one
\* vector per probe file, vector i being the embedding of file i.
C18_NoPartialRequest ==
  /\ printed \cap {"decode", "predict"} # {} =>
       (qpc = "failed" /\ request = NoRequest /\ results = <<>>)
  /\ request # NoRequest =>
       /\ Len(vecs) = Len(files)
       /\ \A i \in 1..Len(files) : vecs[i] = EmbeddingOf(files[i])

\* the embedding of a group failed after some of its sub-batches had been
\* embedded, and the vectors gathered so far were not made into a request
C18_Witness ==
  /\ qpc = "failed" /\ "predict" \in printed
  /\ 0 < Len(vecs) /\ Len(vecs) < Len(files)
  /\ request = NoRequest

StageOrder == <<"exists", "decode", "embed", "put", "upsert">>
IsPrefix(a, b) == Len(a) <= Len(b) /\ \A k \in 1..Len(a) : a[k] = b[k]

\* C19: per-item stage order. In one run the calls made for an item are an
\* initial part of: existence check, decode, embedding, blob put, index
\* upsert, in this order and each at most once. An item that failed made its
\* last call in the stage where it failed, whether its task returned an
\* error or its existence check did: it makes no call of a later stage, and
\* it carries the error of that stage up to the final report.
C19_StageOrder ==
  \A i \in 1..N :
    /\ IsPrefix(Ops(i), StageOrder)
    /\ items[i].err = "hash" => Len(Ops(i)) = 0
    /\ items[i].err = "decode" => Len(Ops(i)) = 2
    /\ items[i].err = "panic" => Len(Ops(i)) \in {2, 3}
    /\ items[i].err \in {"embed", "open"} => Len(Ops(i)) = 3
    /\ items[i].err = "put" => Len(Ops(i)) = 4
    /\ items[i].err = "upsert" => Len(Ops(i)) = 5
    /\ ExistenceCheckErred(i) => Len(Ops(i)) <= 2

\* C20 as claimed: an item that has finished a stage can be forwarded to the
\* next stage whenever that stage has a free slot, whatever the items
\* submitted before it are doing.
C20_ForwardedWhenNextStageFree ==
  pc = "running" =>
    \A i \in 1..N :
      /\ (items[i].pos = "s1done" /\ Cardinality(Stage2) < cpu) => ENABLED Admit2(i)
      /\ (items[i].pos = "s2done" /\ Cardinality(Stage3) < cpu) => ENABLED Admit3(i)
      /\ items[i].pos = "s3done" => ENABLED Handle(i)

\* C20 as amended: an item that has finished a stage can be forwarded to the
\* next stage whenever that stage and every stage after it have a free slot,
\* whatever the items submitted before it are doing; an item that has
\* finished the last stage can always be reported.
C20_CompletionOrderDraining ==
  pc = "running" =>
    \A i \in 1..N :
      /\ (items[i].pos = "s1done" /\ Cardinality(Stage2) < cpu /\ Cardinality(Stage3) < cpu)
           => ENABLED Admit2(i)
      /\ (items[i].pos = "s2done" /\ Cardinality(Stage3) < cpu) => ENABLED Admit3(i)
      /\ items[i].pos = "s3done" => ENABLED Handle(i)

\* an item has been forwarded out of stage one while an item submitted
\* before it is still in flight there
C20_Witness ==
  \E i, j \in 1..N :
    /\ i < j /\ items[i].pos = "s1"
    /\ items[j].pos \in {"s2", "s2done", "s3", "s3put", "s3done", "reported"}

\* C21: collection bootstrap ordering. A collection that was absent comes
\* into being with the model's output size, and while no item has left the
\* directory listing; an item moves through the pipeline only once main has
\* got past the bootstrap and the collection exists; and a run that failed
\* (the check, the creation or a setting) has processed no item.
C21_BootstrapOrdering ==
  [][/\ (collection = 0 /\ collection' # 0) =>
          (collection' = OutputSize /\ \A i \in 1..N : items[i].pos = "pending")
     /\ (\E i \in 1..N : items'[i] # items[i]) => (pc = "running" /\ collection # 0)
     /\ pc' = "failed" => \A i \in 1..N : items'[i] = NewItem]_vars

\* the collection has the model's output size and an item has been taken
\* through every stage of the pipeline
C21_Witness ==
  /\ pc = "running" /\ collection = OutputSize
  /\ \E i \in 1..N : Full(i)

\* C22: at most 4 download transfers are in flight at any time, and no
\* transfer of a group has been started while the group is still being
\* decoded or embedded or its recommend query has not yet returned.
C22_BoundedDownloads ==
  /\ Cardinality({i \in 1..Len(dl) : dl[i] = "running"}) <= 4
  /\ qpc \in {"decode", "predict", "recommend"} => \A i \in 1..Len(dl) : dl[i] = "pending"
  /\ (\E i \in 1..Len(dl) : dl[i] # "pending") => Len(dl) = Len(results)

\* four transfers of a group are in flight and a fifth result waits
C22_Witness ==
  /\ qpc = "download"
  /\ Cardinality({i \in 1..Len(dl) : dl[i] = "running"}) = 4
  /\ \E i \in 1..Len(dl) : dl[i] = "pending"

\* C23: blob before point. Every point of the collection names, in its url,
\* a key that is stored in the bucket; an item whose upsert was issued had
\* its put issued before and succeed; an item whose put failed has no upsert.
C23_BlobBeforePoint ==
  /\ \A p \in points : p.url[2] \in blobs
  /\ \A i \in 1..N :
       /\ Did(i, "upsert") =>
            /\ \E k \in 1..(Len(items[i].calls) - 1) :
                 items[i].calls[k][1] = "put" /\ items[i].calls[k][2] \in blobs
            /\ items[i].err \in {"none", "upsert"}
       /\ items[i].err = "put" => ~Did(i, "upsert")

\* one item has been uploaded and indexed, and another, whose put failed,
\* has been reported without an upsert
C23_Witness ==
  /\ points # {}
  /\ \E i \in 1..N : items[i].pos = "reported" /\ items[i].err = "put"

\* C24: exactly-once reporting and termination. When every task is scheduled
\* and every collaborator call returns, the run ends: with a startup failure
\* and no item touched, or with success and every entry reported. An entry
\* is handed to handle_result only when it has left the last stage, and
\* once reported it is never touched again, so it is reported exactly once,
\* with the one result (success or one error) it then carries.
C24_ExactlyOnceAndTermination ==
  /\ <>(\/ pc = "failed" /\ \A i \in 1..N : items[i].pos = "pending"
        \/ pc = "done" /\ \A i \in 1..N : items[i].pos = "reported")
  /\ [](pc = "done" => \A i \in 1..N : items[i].pos = "reported")
  /\ [][\A i \in 1..N :
          /\ items[i].pos = "reported" => items'[i] = items[i]
          /\ (items[i].pos # "reported" /\ items'[i].pos = "reported") =>
               (items[i].pos = "s3done" /\ items'[i].err = items[i].err)]_vars

\* a run over as many entries as the bound allows has ended with every
\* entry reported, one of them with an error and one without
C24_Witness ==
  /\ pc = "done" /\ N = MaxFiles
  /\ \A i \in 1..N : items[i].pos = "reported"
  /\ \E i, j \in 1..N : items[i].err = "put" /\ items[j].err = "none"
====
